---- MODULE Spec2Model ----
(***************************************************************************)
(* The recipe execution client, in its two variants:                       *)
(*   legacy : .github/scripts/run_recipe.py     (POST /api/v3/recipes/..)  *)
(*   v3     : .github/scripts/run_recipe_v3.py  (POST /api/v1/rube/..)     *)
(* One invocation is a process p.  Its environment and variant are inputs, *)
(* the remote service answers with any response of `service`, and the file *)
(* system may fail an open or a write.  Printing is taken to succeed.      *)
(* response.json() on a body that is no JSON raises                        *)
(* requests.exceptions.JSONDecodeError, a RequestException (requests 2.27  *)
(* and later).                                                             *)
(***************************************************************************)
EXTENDS Integers, Sequences, FiniteSets, TLC

\* Python's None: the value of os.environ.get for a variable that is not set.
NoneVal == "<None>"

\* Invocations.  Spec runs the first alone, RaceSpec runs both.
Procs == {1, 2}

\* The most chunks a failing write leaves in the file before it raises.
MaxPartial == 1

\* ------------------------------------------------------------ JSON values
\* A JSON value is a tagged tuple; an object carries a function from its keys.
J_null == <<"null">>
JStr(s) == <<"str", s>>
JNum(n) == <<"num", n>>
JBool(b) == <<"bool", b>>
JList(n) == <<"list", n>>
JObj(f) == <<"obj", f>>
Absent == <<"absent">>
EmptyFields == [k \in {} |-> J_null]

IsObj(j) == j[1] = "obj"

\* Python truthiness of a parsed JSON value.
Truthy(j) ==
    CASE j[1] = "null" -> FALSE
      [] j[1] = "bool" -> j[2]
      [] j[1] = "num" -> j[2] # 0
      [] j[1] = "str" -> j[2] # ""
      [] j[1] = "list" -> j[2] # 0
      [] j[1] = "obj" -> DOMAIN j[2] # {}

\* dict.get(key, default) on a JSON object.
PyGet(j, k, default) == IF k \in DOMAIN j[2] THEN j[2][k] ELSE default

\* ------------------------------------------------------------ environment
EnvGet(e, k) == e[k]
EnvGetDefault(e, k, d) == IF e[k] = NoneVal THEN d ELSE e[k]

\* Python truthiness of a str-or-None.
StrTruthy(s) == s # NoneVal /\ s # ""

MkEnv(a, r, ps, ll, em, c, d, t) ==
    [COMPOSIO_API_KEY |-> a, RECIPE_ID |-> r, PROSPECT_SPREADSHEET_ID |-> ps,
     LINE_LOG_SPREADSHEET_ID |-> ll, EMAIL_RECIPIENT |-> em, CALENDAR_ID |-> c,
     DAYS_AHEAD |-> d, TOP_N_PROSPECTS |-> t]

RecipeIds == {"r1", "r2"}

\* Every combination of unset / empty / set for the five required variables
\* (optional ones unset), and every combination of the optional ones (required
\* ones set).
Envs ==
    {MkEnv(a, r, ps, ll, em, NoneVal, NoneVal, NoneVal) :
        a \in {NoneVal, "", "key"}, r \in {NoneVal, ""} \cup RecipeIds,
        ps \in {NoneVal, "", "sheetP"}, ll \in {NoneVal, "", "sheetL"},
        em \in {NoneVal, "", "me@x"}}
    \cup
    {MkEnv("key", r, "sheetP", "sheetL", "me@x", c, d, t) :
        r \in RecipeIds, c \in {NoneVal, "cal"}, d \in {NoneVal, "7"},
        t \in {NoneVal, "5"}}

\* The environments with each required variable unset or set.
LiveEnvs ==
    {MkEnv(a, r, ps, ll, em, NoneVal, NoneVal, NoneVal) :
        a \in {NoneVal, "key"}, r \in {NoneVal, "r1"}, ps \in {NoneVal, "sheetP"},
        ll \in {NoneVal, "sheetL"}, em \in {NoneVal, "me@x"}}

RaceEnv(p) ==
    MkEnv("key", IF p = 1 THEN "r1" ELSE "r2", "sheetP", "sheetL", "me@x",
          NoneVal, NoneVal, NoneVal)

\* ------------------------------------------------------------ the service
MkObj(c) == JObj([k \in {x \in DOMAIN c : c[x] # Absent} |-> c[k]])

DataFull ==
    JObj([total_prospects_analyzed |-> JNum(42), spreadsheet_updated |-> JBool(TRUE)])

Objects ==
    {MkObj([execution_id |-> e, data |-> d, success |-> s, status |-> st]) :
        e \in {Absent, J_null, JNum(0), JStr(""), JStr("abc123")},
        d \in {Absent, J_null, JObj(EmptyFields), DataFull},
        s \in {Absent, JBool(TRUE)},
        st \in {Absent, JStr("success")}}
    \cup {JObj([total_prospects_analyzed |-> JNum(7)])}

\* A body is text: the serialisation of a JSON value, or text that is no JSON.
JsonText(j) == <<"json", j>>
RawText(s) == <<"raw", s>>

Bodies ==
    {JsonText(j) : j \in Objects \cup {J_null, JList(0), JList(2), JNum(5)}}
    \cup {RawText("internal error")}

FewBodies ==
    {RawText("internal error"), JsonText(JList(0)),
     JsonText(JObj([execution_id |-> JStr("abc123")])),
     JsonText(JObj([data |-> DataFull, success |-> JBool(TRUE)]))}

Timeout == <<"timeout">>
ConnectionError == <<"connection_error">>
Response(code, body) == <<"response", code, body>>

Responses ==
    {Timeout, ConnectionError}
    \cup {Response(c, b) : c \in {200, 201}, b \in Bodies}
    \cup {Response(c, b) : c \in {202, 404, 500}, b \in FewBodies}

RaceResponses ==
    {Timeout, Response(500, RawText("internal error")),
     Response(200, JsonText(JObj([execution_id |-> JStr("abc123")]))),
     Response(200, JsonText(JObj([data |-> DataFull])))}

\* ------------------------------------------------------------ dictionaries
\* A Python dict is a sequence of <<key, value>> pairs in insertion order.
Has(d, k) == \E i \in 1..Len(d) : d[i][1] = k
Get(d, k) == d[CHOOSE i \in 1..Len(d) : d[i][1] = k][2]
\* {**d, **upd}: a key of d keeps its place and takes the value of upd, the
\* new keys follow in the order of upd.
DictMerge(d, upd) ==
    [i \in 1..Len(d) |->
        IF Has(upd, d[i][1]) THEN <<d[i][1], Get(upd, d[i][1])>> ELSE d[i]]
    \o SelectSeq(upd, LAMBDA kv : ~Has(d, kv[1]))

\* json.dump(log_data, f): the text written, one chunk for each brace and each
\* key/value pair, in the order of the dict.
dumps(d) ==
    <<<<"{">>>> \o [i \in 1..Len(d) |-> <<"kv", d[i][1], d[i][2]>>] \o <<<<"}">>>>

\* Writing `text` at offset 0 of a file opened without O_APPEND: the bytes
\* replace those under them, and what lies beyond stays.
WriteAt0(f, text) ==
    IF Len(text) >= Len(f) THEN text ELSE text \o SubSeq(f, Len(text) + 1, Len(f))

\* ------------------------------------------------------------ legacy variant
\* The five required fields of the configuration (spec section 6).
Required ==
    {"COMPOSIO_API_KEY", "RECIPE_ID", "PROSPECT_SPREADSHEET_ID",
     "LINE_LOG_SPREADSHEET_ID", "EMAIL_RECIPIENT"}

legacy_config_ok(e) ==
    ~(~StrTruthy(EnvGet(e, "COMPOSIO_API_KEY")) \/ ~StrTruthy(EnvGet(e, "RECIPE_ID")))

legacy_input_data(e) ==
    [prospect_spreadsheet_id |-> EnvGetDefault(e, "PROSPECT_SPREADSHEET_ID", ""),
     line_log_spreadsheet_id |-> EnvGetDefault(e, "LINE_LOG_SPREADSHEET_ID", ""),
     email_recipient |-> EnvGetDefault(e, "EMAIL_RECIPIENT", ""),
     calendar_id |-> EnvGetDefault(e, "CALENDAR_ID", "primary"),
     days_ahead |-> EnvGetDefault(e, "DAYS_AHEAD", "21"),
     top_n_prospects |-> EnvGetDefault(e, "TOP_N_PROSPECTS", "10")]

\* response.raise_for_status() raises HTTPError for 4xx and 5xx only.
raise_for_status(code) == 400 <= code /\ code < 600

\* Whether lines 48-51 raise a RequestException, and str(e) of it.
legacy_raises(r) ==
    \/ r[1] # "response"
    \/ raise_for_status(r[2])
    \/ r[3][1] # "json"

legacy_error(r) ==
    IF r[1] # "response" THEN <<r[1]>>
    ELSE IF raise_for_status(r[2]) THEN <<"HTTPError", r[2]>>
    ELSE <<"JSONDecodeError">>

legacy_log_data(recipe_id, inp, r, now) ==
    IF legacy_raises(r)
    THEN <<<<"execution_time", now>>, <<"recipe_id", recipe_id>>,
           <<"input", inp>>, <<"error", legacy_error(r)>>,
           <<"status", "failed">>>>
    ELSE <<<<"execution_time", now>>, <<"recipe_id", recipe_id>>,
           <<"input", inp>>, <<"result", r[3][2]>>,
           <<"status", "success">>>>

\* Lines 69-74, reached after the log is written: result.get on a value that
\* is no dict raises AttributeError, which nothing catches.
legacy_get_raises(result) == ~IsObj(result)

\* ------------------------------------------------------------ v3 variant
v3_config_error(e) ==
    IF ~StrTruthy(EnvGet(e, "COMPOSIO_API_KEY")) THEN "COMPOSIO_API_KEY"
    ELSE IF ~StrTruthy(EnvGet(e, "RECIPE_ID")) THEN "RECIPE_ID"
    ELSE IF EnvGetDefault(e, "PROSPECT_SPREADSHEET_ID", "") = ""
    THEN "PROSPECT_SPREADSHEET_ID"
    ELSE IF EnvGetDefault(e, "LINE_LOG_SPREADSHEET_ID", "") = ""
    THEN "LINE_LOG_SPREADSHEET_ID"
    ELSE IF EnvGetDefault(e, "EMAIL_RECIPIENT", "") = "" THEN "EMAIL_RECIPIENT"
    ELSE NoneVal

input_data(e) ==
    [prospect_spreadsheet_id |-> EnvGetDefault(e, "PROSPECT_SPREADSHEET_ID", ""),
     line_log_spreadsheet_id |-> EnvGetDefault(e, "LINE_LOG_SPREADSHEET_ID", ""),
     email_recipient |-> EnvGetDefault(e, "EMAIL_RECIPIENT", ""),
     calendar_id |-> EnvGetDefault(e, "CALENDAR_ID", "primary"),
     days_ahead |-> EnvGetDefault(e, "DAYS_AHEAD", "21"),
     top_n_prospects |-> EnvGetDefault(e, "TOP_N_PROSPECTS", "10")]

v3_failed(msg) ==
    [branch |-> "except", data |-> <<<<"status", "failed">>, <<"error", msg>>>>]

\* if execution_id: (line 110)
v3_is_async(execution_id) == Truthy(execution_id)

\* A variant of v3_extract_data that logs the whole body and never looks for
\* the data key.
v3_extract_data_whole(result) == result

\* data = result.get("data", result) (line 133)
v3_extract_data(result) == PyGet(result, "data", result)

\* Lines 76-179 up to the call of save_log: the branch taken and the dict
\* handed to save_log.
v3_handle(recipe_id, inp, r) ==
    IF r = Timeout THEN v3_failed(<<"Request timeout after 10 minutes">>)
    ELSE IF r = ConnectionError THEN v3_failed(<<"Request failed", "connection">>)
    ELSE IF r[2] \notin {200, 201}
    THEN [branch |-> "http_error",
          data |-> <<<<"status", "failed">>,
                     <<"error", <<"API request failed with status", r[2]>>>>,
                     <<"response", r[3]>>, <<"status_code", r[2]>>>>]
    ELSE IF r[3][1] # "json" THEN v3_failed(<<"Request failed", "JSONDecodeError">>)
    ELSE LET result == r[3][2] IN
    IF ~IsObj(result) THEN v3_failed(<<"Unexpected error", "AttributeError">>)
    ELSE LET execution_id == PyGet(result, "execution_id", J_null) IN
    IF v3_is_async(execution_id)
    THEN [branch |-> "started",
          data |-> <<<<"status", "started">>, <<"execution_id", execution_id>>,
                     <<"recipe_id", recipe_id>>, <<"input", inp>>,
                     <<"message", "Recipe execution started successfully">>,
                     <<"note", "Results will be updated to spreadsheet and sent via email">>>>]
    ELSE LET data == v3_extract_data(result) IN
    IF ~IsObj(data) THEN v3_failed(<<"Unexpected error", "AttributeError">>)
    ELSE [branch |-> "sync",
          data |-> <<<<"status", "success">>, <<"recipe_id", recipe_id>>,
                     <<"input", inp>>, <<"result", data>>,
                     <<"total_prospects", PyGet(data, "total_prospects_analyzed", J_null)>>,
                     <<"top_prospects", PyGet(data, "top_prospects_count", J_null)>>,
                     <<"events", PyGet(data, "relevant_events_count", J_null)>>>>]

\* save_log's log_data (lines 183-187).
save_log_data(e, data, now) ==
    DictMerge(<<<<"execution_time", now>>, <<"recipe_id", EnvGet(e, "RECIPE_ID")>>>>,
              data)

\* The code passed to sys.exit at the end of each branch.
v3_exit_code(branch) == IF branch \in {"started", "sync"} THEN 0 ELSE 1

\* The record an earlier run left in the file: a synchronous v3 success.
PriorFile ==
    dumps(save_log_data(MkEnv("key", "r0", "sheetP", "sheetL", "me@x", NoneVal,
                              NoneVal, NoneVal),
                        v3_handle("r0", input_data(RaceEnv(1)),
                                  Response(200, JsonText(JObj([data |-> DataFull])))).data,
                        -1))

\* ------------------------------------------------------------ state
VARIABLES
    active,       \* the invocations that run
    service,      \* the answers the remote service may give
    variant,      \* variant[p]: which script p runs
    env,          \* env[p]: os.environ of p
    pc,           \* pc[p]: start, post, responded, open, dump, finish, exited
    requests,     \* requests[p]: calls of requests.post
    response,     \* response[p]: what the call returned or raised
    branch,       \* branch[p]: the branch of the try statement taken
    log_data,     \* log_data[p]: the dict handed to json.dump
    attempts,     \* attempts[p]: calls of open("execution_log.json", "w")
    wrote,        \* wrote[p]: "no", "ok" or "failed"
    exit_code,    \* exit_code[p]: -1 while running
    uncaught,     \* uncaught[p]: the process died of an uncaught exception
    file,         \* execution_log.json, a sequence of chunks
    last_writer,  \* the invocation whose write completed last, 0 for none
    clock         \* datetime.now()

vars ==
    <<active, service, variant, env, pc, requests, response, branch, log_data,
      attempts, wrote, exit_code, uncaught, file, last_writer, clock>>

Start(vs, es) ==
    /\ variant = vs
    /\ env = es
    /\ pc = [p \in Procs |-> IF p \in active THEN "start" ELSE "idle"]
    /\ requests = [p \in Procs |-> 0]
    /\ response = [p \in Procs |-> <<"none">>]
    /\ branch = [p \in Procs |-> "none"]
    /\ log_data = [p \in Procs |-> <<>>]
    /\ attempts = [p \in Procs |-> 0]
    /\ wrote = [p \in Procs |-> "no"]
    /\ exit_code = [p \in Procs |-> -1]
    /\ uncaught = [p \in Procs |-> FALSE]
    /\ file = PriorFile
    /\ last_writer = 0
    /\ clock = 0

\* One invocation, of either variant, with any environment.
Init ==
    /\ active = {1}
    /\ service = Responses
    /\ \E v \in {"legacy", "v3"}, e \in Envs :
          Start([p \in Procs |-> IF p = 1 THEN v ELSE "legacy"],
                [p \in Procs |-> IF p = 1 THEN e ELSE RaceEnv(p)])

\* One invocation, of either variant, with an environment of LiveEnvs.
LiveInit ==
    /\ active = {1}
    /\ service = Responses
    /\ \E v \in {"legacy", "v3"}, e \in LiveEnvs :
          Start([p \in Procs |-> IF p = 1 THEN v ELSE "legacy"],
                [p \in Procs |-> IF p = 1 THEN e ELSE RaceEnv(p)])

\* Two invocations with valid configurations, in the same directory.
InitRace ==
    /\ active = Procs
    /\ service = RaceResponses
    /\ \E vs \in [Procs -> {"legacy", "v3"}] : Start(vs, [p \in Procs |-> RaceEnv(p)])

\* sys.exit(code), or the interpreter ending on an uncaught exception (code 1).
Exit(p, code, unc) ==
    /\ pc' = [pc EXCEPT ![p] = "exited"]
    /\ exit_code' = [exit_code EXCEPT ![p] = code]
    /\ uncaught' = [uncaught EXCEPT ![p] = unc]

Goto(p, l) ==
    /\ pc' = [pc EXCEPT ![p] = l]
    /\ UNCHANGED <<exit_code, uncaught>>

\* requests.post(url, headers=headers, json=payload, timeout=600)
Post(p) ==
    /\ \E r \in service : response' = [response EXCEPT ![p] = r]
    /\ requests' = [requests EXCEPT ![p] = @ + 1]

\* open("execution_log.json", "w") succeeding: the file is truncated.
OpenOk(p) ==
    /\ attempts' = [attempts EXCEPT ![p] = @ + 1]
    /\ file' = <<>>
    /\ UNCHANGED <<wrote, last_writer>>

\* open(...) raising OSError: the file is left as it was.
OpenFails(p) ==
    /\ attempts' = [attempts EXCEPT ![p] = @ + 1]
    /\ wrote' = [wrote EXCEPT ![p] = "failed"]
    /\ UNCHANGED <<file, last_writer>>

\* json.dump and the close of the with block succeeding: the text reaches the
\* file at the descriptor's own offset, 0.
DumpOk(p) ==
    /\ file' = WriteAt0(file, dumps(log_data[p]))
    /\ wrote' = [wrote EXCEPT ![p] = "ok"]
    /\ last_writer' = p
    /\ UNCHANGED attempts

\* json.dump or the flush raising OSError after k chunks reached the file.
DumpFails(p) ==
    /\ \E k \in 0..MaxPartial :
          /\ k < Len(dumps(log_data[p]))
          /\ file' = WriteAt0(file, SubSeq(dumps(log_data[p]), 1, k))
    /\ wrote' = [wrote EXCEPT ![p] = "failed"]
    /\ UNCHANGED <<attempts, last_writer>>

\* ------------------------------------------------------------ legacy steps
Legacy(p, l) == p \in active /\ variant[p] = "legacy" /\ pc[p] = l

\* run_recipe.py lines 14-29
legacy_validate(p) ==
    /\ Legacy(p, "start")
    /\ IF legacy_config_ok(env[p]) THEN Goto(p, "post") ELSE Exit(p, 1, FALSE)
    /\ UNCHANGED <<active, service, variant, env, requests, response, branch,
                   log_data, attempts, wrote, file, last_writer, clock>>

\* line 48
legacy_post(p) ==
    /\ Legacy(p, "post")
    /\ Post(p)
    /\ Goto(p, "responded")
    /\ UNCHANGED <<active, service, variant, env, branch, log_data, attempts,
                   wrote, file, last_writer, clock>>

\* lines 49-63 (try branch) or 76-85 (except branch), up to the open
legacy_handle(p) ==
    /\ Legacy(p, "responded")
    /\ branch' = [branch EXCEPT ![p] =
                     IF legacy_raises(response[p]) THEN "except" ELSE "try"]
    /\ log_data' = [log_data EXCEPT ![p] =
                       legacy_log_data(EnvGet(env[p], "RECIPE_ID"),
                                       legacy_input_data(env[p]), response[p], clock)]
    /\ clock' = clock + 1
    /\ Goto(p, "open")
    /\ UNCHANGED <<active, service, variant, env, requests, response, attempts,
                   wrote, file, last_writer>>

\* lines 65 and 87: the open; an OSError is no RequestException and ends the
\* process
legacy_open(p) ==
    /\ Legacy(p, "open")
    /\ \/ OpenOk(p) /\ Goto(p, "dump")
       \/ OpenFails(p) /\ Exit(p, 1, TRUE)
    /\ UNCHANGED <<active, service, variant, env, requests, response, branch,
                   log_data, clock>>

\* lines 66 and 88: the dump and the close
legacy_dump(p) ==
    /\ Legacy(p, "dump")
    /\ \/ DumpOk(p) /\ Goto(p, "finish")
       \/ DumpFails(p) /\ Exit(p, 1, TRUE)
    /\ UNCHANGED <<active, service, variant, env, requests, response, branch,
                   log_data, clock>>

\* lines 68-74 (try branch) or 90 (except branch)
legacy_finish(p) ==
    /\ Legacy(p, "finish")
    /\ IF branch[p] = "except" THEN Exit(p, 1, FALSE)
       ELSE IF legacy_get_raises(response[p][3][2]) THEN Exit(p, 1, TRUE)
       ELSE Exit(p, 0, FALSE)
    /\ UNCHANGED <<active, service, variant, env, requests, response, branch,
                   log_data, attempts, wrote, file, last_writer, clock>>

\* ------------------------------------------------------------ v3 steps
V3(p, l) == p \in active /\ variant[p] = "v3" /\ pc[p] = l

\* run_recipe_v3.py lines 26-56
v3_validate(p) ==
    /\ V3(p, "start")
    /\ IF v3_config_error(env[p]) = NoneVal THEN Goto(p, "post")
       ELSE Exit(p, 1, FALSE)
    /\ UNCHANGED <<active, service, variant, env, requests, response, branch,
                   log_data, attempts, wrote, file, last_writer, clock>>

\* A variant of v3_post that issues the request again after a timeout.
v3_post_retry(p) ==
    /\ V3(p, "post")
    /\ Post(p)
    /\ IF response'[p] = Timeout /\ requests[p] = 0
       THEN Goto(p, "post") ELSE Goto(p, "responded")
    /\ UNCHANGED <<active, service, variant, env, branch, log_data, attempts,
                   wrote, file, last_writer, clock>>

\* lines 78-83
v3_post(p) ==
    /\ V3(p, "post")
    /\ Post(p)
    /\ Goto(p, "responded")
    /\ UNCHANGED <<active, service, variant, env, branch, log_data, attempts,
                   wrote, file, last_writer, clock>>

\* v3_handle on the state of p.
v3_handled(p) ==
    v3_handle(EnvGet(env[p], "RECIPE_ID"), input_data(env[p]), response[p])

\* A variant of v3_respond whose timeout handler exits without calling save_log.
v3_respond_no_log(p) ==
    /\ V3(p, "responded")
    /\ branch' = [branch EXCEPT ![p] = v3_handled(p).branch]
    /\ log_data' = [log_data EXCEPT ![p] =
                       save_log_data(env[p], v3_handled(p).data, clock)]
    /\ clock' = clock + 1
    /\ IF response[p] = Timeout THEN Goto(p, "finish") ELSE Goto(p, "open")
    /\ UNCHANGED <<active, service, variant, env, requests, response, attempts,
                   wrote, file, last_writer>>

\* lines 85-179 up to the call of save_log, and save_log's lines 183-187
v3_respond(p) ==
    /\ V3(p, "responded")
    /\ branch' = [branch EXCEPT ![p] = v3_handled(p).branch]
    /\ log_data' = [log_data EXCEPT ![p] =
                       save_log_data(env[p], v3_handled(p).data, clock)]
    /\ clock' = clock + 1
    /\ Goto(p, "open")
    /\ UNCHANGED <<active, service, variant, env, requests, response, attempts,
                   wrote, file, last_writer>>

\* save_log line 190; the except of line 193 catches a failure
save_log_open(p) ==
    /\ V3(p, "open")
    /\ \/ OpenOk(p) /\ Goto(p, "dump")
       \/ OpenFails(p) /\ Goto(p, "finish")
    /\ UNCHANGED <<active, service, variant, env, requests, response, branch,
                   log_data, clock>>

\* save_log line 191 and the close; the except of line 193 catches a failure
save_log_dump(p) ==
    /\ V3(p, "dump")
    /\ \/ DumpOk(p)
       \/ DumpFails(p)
    /\ Goto(p, "finish")
    /\ UNCHANGED <<active, service, variant, env, requests, response, branch,
                   log_data, clock>>

\* lines 100, 152, 161, 170, 179: SystemExit is no Exception, nothing catches it
v3_finish(p) ==
    /\ V3(p, "finish")
    /\ Exit(p, v3_exit_code(branch[p]), FALSE)
    /\ UNCHANGED <<active, service, variant, env, requests, response, branch,
                   log_data, attempts, wrote, file, last_writer, clock>>

\* ------------------------------------------------------------ specifications
Next ==
    \E p \in Procs :
        \/ legacy_validate(p)
        \/ legacy_post(p)
        \/ legacy_handle(p)
        \/ legacy_open(p)
        \/ legacy_dump(p)
        \/ legacy_finish(p)
        \/ v3_validate(p)
        \/ v3_post(p)
        \/ v3_respond(p)
        \/ save_log_open(p)
        \/ save_log_dump(p)
        \/ v3_finish(p)

Spec == Init /\ [][Next]_vars

\* Each invocation is one thread that runs its script to the end; the call of
\* requests.post returns or raises within its timeout.
LiveSpec == LiveInit /\ [][Next]_vars /\ WF_vars(Next)

RaceSpec == InitRace /\ [][Next]_vars

\* ------------------------------------------------------------ properties
Exited(p) == pc[p] = "exited"

\* p passed the configuration check of its script.
Validated(p) ==
    /\ p \in active
    /\ IF variant[p] = "legacy" THEN legacy_config_ok(env[p])
       ELSE v3_config_error(env[p]) = NoneVal

\* Some required field is absent or empty.
MissingRequired(e) == \E k \in Required : e[k] \in {NoneVal, ""}

IsResponse(r) == r[1] = "response"
ParsesAsJson(r) == IsResponse(r) /\ r[3][1] = "json"
Status(p) == Get(log_data[p], "status")

\* The body, an object, carries an execution_id that is not empty: neither
\* null, false, 0, "", [] nor {}.
NonEmptyExecutionId(j) ==
    /\ IsObj(j)
    /\ "execution_id" \in DOMAIN j[2]
    /\ j[2]["execution_id"] \notin
          {J_null, JBool(FALSE), JNum(0), JStr(""), JList(0), JObj(EmptyFields)}

\* The body's data value, or the whole body when it has no data key.
DataOf(j) == IF IsObj(j) /\ "data" \in DOMAIN j[2] THEN j[2]["data"] ELSE j

\* data's total_prospects_analyzed, None when data has none.
TotalOf(d) ==
    IF IsObj(d) /\ "total_prospects_analyzed" \in DOMAIN d[2]
    THEN d[2]["total_prospects_analyzed"] ELSE J_null

\* p runs with all five required fields set.
Configured(p) == p \in active /\ ~MissingRequired(env[p])

\* C1: in both variants, an invocation with any of the five required fields
\* absent or empty issues no HTTP request and exits with code 1.
C1_MissingFieldNoRequest ==
    \A p \in active :
        MissingRequired(env[p]) =>
            /\ requests[p] = 0
            /\ Exited(p) => exit_code[p] = 1

\* C2: in both variants, an invocation that passed validation never opens the
\* log file twice, and has opened it exactly once when the process has exited.
C2_OneLogAttempt ==
    \A p \in active :
        /\ attempts[p] <= 1
        /\ (Exited(p) /\ Validated(p)) => attempts[p] = 1

\* C2 witness: an invocation whose request timed out has exited after one
\* attempt to write the log.
C2_Witness ==
    \E p \in active :
        /\ Exited(p) /\ Validated(p) /\ response[p] = Timeout
        /\ attempts[p] = 1

\* C3: in both variants, every record written by a configured invocation has
\* recipe_id equal to the configured recipe id and input equal to the
\* parameters sent, whatever its status.
C3_RecordEchoesRequest ==
    \A p \in active :
        (Configured(p) /\ wrote[p] = "ok") =>
            /\ Has(log_data[p], "recipe_id")
            /\ Get(log_data[p], "recipe_id") = env[p]["RECIPE_ID"]
            /\ Has(log_data[p], "input")
            /\ Get(log_data[p], "input") = input_data(env[p])

\* C4: in both variants, a response whose status code is neither 200 nor 201
\* ends in exit code 1 and a record of status failed that carries the status
\* code and the raw body.
C4_BadStatusFails ==
    \A p \in active :
        (Configured(p) /\ Exited(p) /\ wrote[p] = "ok" /\ IsResponse(response[p])
            /\ response[p][2] \notin {200, 201}) =>
            /\ exit_code[p] = 1
            /\ Status(p) = "failed"
            /\ Has(log_data[p], "status_code")
            /\ Get(log_data[p], "status_code") = response[p][2]
            /\ Has(log_data[p], "response")
            /\ Get(log_data[p], "response") = response[p][3]

\* What C5 says of the record and the exit code for a body j.
C5_Outcome(p, j) ==
    IF NonEmptyExecutionId(j)
    THEN /\ exit_code[p] = 0
         /\ Status(p) = "started"
         /\ Get(log_data[p], "execution_id") = j[2]["execution_id"]
         /\ ~Has(log_data[p], "result")
    ELSE /\ exit_code[p] = 0
         /\ Status(p) = "success"
         /\ Get(log_data[p], "result") = DataOf(j)
         /\ Get(log_data[p], "total_prospects") = TotalOf(DataOf(j))

\* C5 as stated: on v3, every 200/201 response whose body parses as JSON ends
\* in exit code 0 and a started record (non-empty execution_id) or a success
\* record with result and total_prospects taken from data.
C5_Original ==
    \A p \in active :
        (variant[p] = "v3" /\ Exited(p) /\ ParsesAsJson(response[p])
            /\ response[p][2] \in {200, 201}) =>
            C5_Outcome(p, response[p][3][2])

\* C5 amended: the same, for bodies that are JSON objects whose data value
\* (the whole body when there is no data key) is an object whenever the
\* execution_id is absent or empty; every other parsed body ends in exit code
\* 1 and a failed record.
C5_Amended ==
    \A p \in active :
        (variant[p] = "v3" /\ Exited(p) /\ ParsesAsJson(response[p])
            /\ response[p][2] \in {200, 201}) =>
            LET j == response[p][3][2] IN
            IF IsObj(j) /\ (NonEmptyExecutionId(j) \/ IsObj(DataOf(j)))
            THEN C5_Outcome(p, j)
            ELSE exit_code[p] = 1 /\ Status(p) = "failed"

\* C5 witness: a synchronous answer with a data object has been logged with
\* its counter.
C5_Witness ==
    \E p \in active :
        /\ variant[p] = "v3" /\ Exited(p) /\ exit_code[p] = 0
        /\ Status(p) = "success"
        /\ "data" \in DOMAIN response[p][3][2][2]
        /\ Get(log_data[p], "total_prospects") = JNum(42)

\* The errors C6 lists: timeout, transport error, a body that is no JSON, or a
\* parsed body on which the script's later field access fails.
FieldAccessFails(v, j) ==
    \/ ~IsObj(j)
    \/ v = "v3" /\ ~NonEmptyExecutionId(j) /\ ~IsObj(DataOf(j))

Accepted(v, r) ==
    /\ IsResponse(r)
    /\ IF v = "legacy" THEN ~raise_for_status(r[2]) ELSE r[2] \in {200, 201}

ErrorAfterRequest(v, r) ==
    \/ r \in {Timeout, ConnectionError}
    \/ Accepted(v, r) /\ ~ParsesAsJson(r)
    \/ Accepted(v, r) /\ ParsesAsJson(r) /\ FieldAccessFails(v, r[3][2])

\* C6: in both variants, every such error ends in exit code 1 and a failed
\* record without a result field, and none ends the process uncaught.
C6_ErrorsBecomeFailed ==
    \A p \in active :
        (Configured(p) /\ Exited(p) /\ wrote[p] = "ok"
            /\ ErrorAfterRequest(variant[p], response[p])) =>
            /\ exit_code[p] = 1
            /\ ~uncaught[p]
            /\ Status(p) = "failed"
            /\ ~Has(log_data[p], "result")

\* The exit code of p's invocation when its log write succeeds.
ExitWhenLogged(p) ==
    IF variant[p] = "v3" THEN v3_exit_code(branch[p])
    ELSE IF branch[p] = "except" THEN 1
    ELSE IF legacy_get_raises(response[p][3][2]) THEN 1
    ELSE 0

\* C7: in both variants, an invocation whose log write fails exits with the
\* code it exits with when the write succeeds.
C7_LogFailureKeepsExitCode ==
    \A p \in active :
        (Configured(p) /\ Exited(p) /\ wrote[p] = "failed") =>
            exit_code[p] = ExitWhenLogged(p)

\* C8: in both variants, a validated invocation issues one request and never
\* a second; the log is opened only after the request and nothing happens
\* after the exit; once the call has returned the process eventually exits
\* with code 0 or 1.
C8_OneRequestThenLogThenExit ==
    /\ [](\A p \in active :
            /\ requests[p] <= 1
            /\ attempts[p] >= 1 => requests[p] = 1
            /\ (Exited(p) /\ Validated(p)) => requests[p] = 1
            /\ Exited(p) => exit_code[p] \in {0, 1})
    /\ [][\A p \in active :
            Exited(p) => /\ Exited(p)'
                         /\ requests'[p] = requests[p]
                         /\ attempts'[p] = attempts[p]
                         /\ exit_code'[p] = exit_code[p]]_vars
    /\ \A p \in Procs :
          (requests[p] = 1) ~> (Exited(p) /\ exit_code[p] \in {0, 1})

\* C8 witness: an invocation answered with an execution_id has exited after
\* one request and one log write, without asking again.
C8_Witness ==
    \E p \in active :
        /\ Exited(p) /\ Validated(p) /\ requests[p] = 1 /\ attempts[p] = 1
        /\ wrote[p] = "ok"
        /\ ParsesAsJson(response[p]) /\ NonEmptyExecutionId(response[p][3][2])

\* C9: on legacy, every response accepted as successful ends in a record of
\* status success and exit code 0, with or without a success or status field
\* in the body, and no legacy record has status started.
C9_LegacyAcceptedIsSuccess ==
    \A p \in active :
        (variant[p] = "legacy" /\ Configured(p) /\ Exited(p) /\ wrote[p] = "ok") =>
            /\ Status(p) # "started"
            /\ ~legacy_raises(response[p]) =>
                  Status(p) = "success" /\ exit_code[p] = 0

\* C10: once two concurrent invocations have both written and exited, the
\* file holds exactly the record of the one whose write finished last.
C10_LastWriterWins ==
    (\A p \in Procs : Exited(p) /\ wrote[p] = "ok") =>
        file = dumps(log_data[last_writer])

====
